---- MODULE Spec2Model ----
(***************************************************************************)
(* TaskBreaker: the request handlers of app/api/tasks and app/api/breakdown *)
(* and the zod schemas of lib/schemas, as a state machine.                  *)
(*                                                                          *)
(* A string is a sequence of one-character strings; " " is whitespace.      *)
(* A JSON value is a tagged record (see Str, Num, Missing, Arr, Obj).       *)
(***************************************************************************)
EXTENDS Integers, Sequences, FiniteSets, TLC

VARIABLES
    tasks,      \* rows of table tasks: [id, user_id, title]
    subtasks,   \* rows of table subtasks: [id, task_id, text, checked, position]
    nextId,     \* the store's id generator (gen_random_uuid): next unused id
    req,        \* the request being handled: position, locals, response
    nreq,       \* number of requests received so far
    sin,        \* schema harness: the value handed to a schema
    sout,       \* schema harness: the schema's result
    sop,         \* schema harness: which schema was applied
    other,      \* a second request in progress, in the form of req
    ui          \* the state of the dashboard page in the browser

vars == <<tasks, subtasks, nextId, req, nreq, sin, sout, sop, other, ui>>

-----------------------------------------------------------------------------
(* Bounds of the model *)

\* number of requests received in one behaviour
MaxRequests == 2
\* longest run of whitespace put around an input string
MaxPad == 1
\* number of fetches the page makes in one behaviour, the first load included
MaxCalls == 4

(* Program constants *)

\* createTaskSchema: .max(200); breakdown route: trimmedTask.length > 200
MaxTaskLen == 200
\* aiTaskResponseSchema: title .min(2) / .max(50); route: trim().length >= 2, slice(0, 50)
MinTitleLen == 2
MaxTitleLen == 50
\* aiTaskResponseSchema: subtasks entries .max(100), array .min(3).max(5)
MaxSubtaskLen == 100
MinSubtasks == 3
MaxSubtasks == 5

-----------------------------------------------------------------------------
(* Strings *)

WS == {" "}

Rep(c, n) == [i \in 1..n |-> c]

Pad(n) == Rep(" ", n)

\* String.prototype.trim: drop leading and trailing whitespace
Trim(s) ==
    IF \A i \in 1..Len(s) : s[i] \in WS THEN <<>>
    ELSE LET lo == CHOOSE i \in 1..Len(s) :
                       s[i] \notin WS /\ \A j \in 1..(i - 1) : s[j] \in WS
             hi == CHOOSE i \in 1..Len(s) :
                       s[i] \notin WS /\ \A j \in (i + 1)..Len(s) : s[j] \in WS
         IN  SubSeq(s, lo, hi)

\* String.prototype.slice(0, n)
Slice0(s, n) == IF Len(s) <= n THEN s ELSE SubSeq(s, 1, n)

-----------------------------------------------------------------------------
(* JSON values *)

Missing == [t |-> "missing", s |-> <<>>]
Num     == [t |-> "num", s |-> <<>>]
Str(s)  == [t |-> "str", s |-> s]

NoArr        == [t |-> "missing", items |-> <<>>]
NotArr       == [t |-> "num", items |-> <<>>]
Arr(items)   == [t |-> "arr", items |-> items]

\* an object; extra: it carries a key other than title and subtasks
Obj(title, subs, extra) ==
    [kind |-> "obj", title |-> title, subtasks |-> subs, extra |-> extra]
JNull   == [kind |-> "null", title |-> Missing, subtasks |-> NoArr, extra |-> FALSE]
JScalar == [kind |-> "scalar", title |-> Missing, subtasks |-> NoArr, extra |-> FALSE]

\* a request body: not parseable, or an object with (or without) a task field
BadBody     == [json |-> FALSE, task |-> Missing]
Body(task)  == [json |-> TRUE, task |-> task]

\* a completion text: not parseable, or the JSON text of a value
BadText     == [json |-> FALSE, val |-> JNull]
Text(val)   == [json |-> TRUE, val |-> val]

\* the checked field of a PATCH body: absent, not a boolean, or a boolean
PMissing  == [t |-> "missing", b |-> FALSE]
PStr      == [t |-> "str", b |-> FALSE]
PBool(b)  == [t |-> "bool", b |-> b]

\* a PATCH body: not parseable, or an object with (or without) a checked field
BadPatch       == [json |-> FALSE, checked |-> PMissing]
Patch(checked) == [json |-> TRUE, checked |-> checked]

-----------------------------------------------------------------------------
(* lib/schemas *)

\* z.object({task: z.string().min(1, ..).max(200, ..).trim()}).safeParse(body):
\* the checks run in the order written, so min and max see the untrimmed
\* string and trim transforms it afterwards
createTaskSchema(body) ==
    IF body.task.t = "missing" THEN
        [success |-> FALSE, task |-> <<>>, message |-> "Required"]
    ELSE IF body.task.t # "str" THEN
        [success |-> FALSE, task |-> <<>>, message |-> "Expected string"]
    ELSE IF Len(body.task.s) < 1 THEN
        [success |-> FALSE, task |-> <<>>, message |-> "Task is required"]
    ELSE IF Len(body.task.s) > MaxTaskLen THEN
        [success |-> FALSE, task |-> <<>>,
         message |-> "Task must be 200 characters or less"]
    ELSE [success |-> TRUE, task |-> Trim(body.task.s), message |-> ""]

\* the inline checks of POST /api/breakdown on the parsed body
breakdownValidate(body) ==
    IF body.task.t # "str" \/ Len(body.task.s) = 0 THEN
        [success |-> FALSE, task |-> <<>>, message |-> "Task is required"]
    ELSE IF Len(Trim(body.task.s)) = 0 THEN
        [success |-> FALSE, task |-> <<>>, message |-> "Task cannot be empty"]
    ELSE IF Len(Trim(body.task.s)) > MaxTaskLen THEN
        [success |-> FALSE, task |-> <<>>,
         message |-> "Task must be 200 characters or less"]
    ELSE [success |-> TRUE, task |-> Trim(body.task.s), message |-> ""]

\* z.string().min(2).max(50)
titleOk(e) == e.t = "str" /\ Len(e.s) >= MinTitleLen /\ Len(e.s) <= MaxTitleLen

subtaskEntryOkLoose(e) == e.t = "str" /\ Len(e.s) <= MaxSubtaskLen

\* z.string().min(1).max(100)
subtaskEntryOk(e) == e.t = "str" /\ Len(e.s) >= 1 /\ Len(e.s) <= MaxSubtaskLen

\* z.array(z.string().min(1).max(100)).min(3).max(5)
subtasksOk(a) ==
    /\ a.t = "arr"
    /\ Len(a.items) >= MinSubtasks
    /\ Len(a.items) <= MaxSubtasks
    /\ \A i \in 1..Len(a.items) : subtaskEntryOk(a.items[i])

NoData == JNull

\* z.object({title, subtasks}).safeParse(parsed); z.object drops unknown keys
aiTaskResponseSchema(parsed) ==
    IF parsed.kind = "obj" /\ titleOk(parsed.title) /\ subtasksOk(parsed.subtasks)
    THEN [success |-> TRUE, data |-> Obj(parsed.title, parsed.subtasks, FALSE)]
    ELSE [success |-> FALSE, data |-> NoData]

\* z.object({checked: z.boolean()}).safeParse(body)
updateSubtaskSchema(body) ==
    IF body.checked.t = "missing" THEN
        [success |-> FALSE, checked |-> FALSE, message |-> "Required"]
    ELSE IF body.checked.t # "bool" THEN
        [success |-> FALSE, checked |-> FALSE, message |-> "Expected boolean"]
    ELSE [success |-> TRUE, checked |-> body.checked.b, message |-> ""]

-----------------------------------------------------------------------------
(* The store: tables tasks and subtasks *)

TaskRow(id, user, title) == [id |-> id, user_id |-> user, title |-> title]

SubtaskRow(id, taskId, text, checked, position) ==
    [id |-> id, task_id |-> taskId, text |-> text, checked |-> checked,
     position |-> position]

SubtasksOf(taskId) == {s \in subtasks : s.task_id = taskId}

TaskIds == {t.id : t \in tasks}

\* subtasks.task_id references tasks(id) on delete cascade
DeleteTaskRows(id) == {t \in tasks : t.id # id}
DeleteSubtaskRowsNoCascade(id) == subtasks
DeleteSubtaskRows(id) == {s \in subtasks : s.task_id # id}

\* row level security: policies of tables tasks and subtasks
rlsTaskVisibleToAll(u, t) == TRUE
\* "Users can view own tasks": using (auth.uid() = user_id)
rlsTaskVisible(u, t) == t.user_id = u
\* "Users can delete own tasks": using (auth.uid() = user_id)
rlsTaskDeletable(u, t) == t.user_id = u
\* "Users can view / update own subtasks":
\* using (task_id in (select id from tasks where user_id = auth.uid()))
rlsSubtaskVisible(u, s) == \E t \in tasks : t.id = s.task_id /\ t.user_id = u
rlsSubtaskUpdatable(u, s) == \E t \in tasks : t.id = s.task_id /\ t.user_id = u

\* from("tasks").select("id").eq("id", taskId).eq("user_id", user.id).single()
SelectOwnTask(u, taskId) ==
    {t \in tasks : rlsTaskVisible(u, t) /\ t.id = taskId /\ t.user_id = u}

\* from("tasks").select("id, title, created_at, subtasks (...)")
SelectTasks(u) == {t \in tasks : rlsTaskVisible(u, t)}
SelectSubtasksOf(u, ts) ==
    {s \in subtasks : rlsSubtaskVisible(u, s) /\ \E t \in ts : t.id = s.task_id}

\* from("subtasks").update({checked}).eq("id", subtaskId).eq("task_id", taskId)
UpdateMatchedAnyTask(u, subtaskId, taskId) ==
    {s \in subtasks : rlsSubtaskUpdatable(u, s) /\ s.id = subtaskId}
UpdateMatched(u, subtaskId, taskId) ==
    {s \in subtasks : rlsSubtaskUpdatable(u, s) /\ s.id = subtaskId /\ s.task_id = taskId}

UpdateCheckedWholeTask(matched, checked) ==
    {IF \E m \in matched : m.task_id = s.task_id
     THEN [s EXCEPT !.checked = checked] ELSE s : s \in subtasks}
UpdateCheckedResetsPosition(matched, checked) ==
    {IF s \in matched THEN [s EXCEPT !.checked = checked, !.position = 0] ELSE s :
        s \in subtasks}
UpdateChecked(matched, checked) ==
    {IF s \in matched THEN [s EXCEPT !.checked = checked] ELSE s : s \in subtasks}

\* from("tasks").delete().eq("id", taskId), as user u
DeleteMatched(u, taskId) == {t \in tasks : rlsTaskDeletable(u, t) /\ t.id = taskId}

-----------------------------------------------------------------------------
(* POST /api/tasks: the response interpreter (route.ts 170-219) *)

usable(e) == e.t = "str" /\ Len(Trim(e.s)) > 0

\* parsed.subtasks.filter(s => typeof s === "string" && s.trim().length > 0)
filterSubtasksKeepAll(items) == [i \in 1..Len(items) |-> items[i].s]
filterSubtasks(items) ==
    LET kept == SelectSeq(items, usable)
    IN  [i \in 1..Len(kept) |-> kept[i].s]

\* typeof parsed.title === "string" && parsed.title.trim().length >= 2
\*   ? parsed.title.trim().slice(0, 50) : task
partialTitleUncut(title, task) ==
    IF title.t = "str" /\ Len(Trim(title.s)) >= MinTitleLen
    THEN Trim(title.s)
    ELSE task
partialTitle(title, task) ==
    IF title.t = "str" /\ Len(Trim(title.s)) >= MinTitleLen
    THEN Slice0(Trim(title.s), MaxTitleLen)
    ELSE task

ParseFailure == [ok |-> FALSE, title |-> <<>>, texts |-> <<>>]

interpret(content, task) ==
    IF ~content.json THEN ParseFailure                 \* JSON.parse throws
    ELSE
      LET parsed    == content.val
          validated == aiTaskResponseSchema(parsed)
      IN  IF validated.success THEN
              [ok |-> TRUE,
               title |-> validated.data.title.s,
               texts |-> [i \in 1..Len(validated.data.subtasks.items) |->
                             validated.data.subtasks.items[i].s]]
          ELSE IF parsed.kind # "obj" THEN ParseFailure  \* null.subtasks throws; scalar: undefined
          ELSE IF parsed.subtasks.t = "arr" /\ Len(parsed.subtasks.items) > 0 THEN
              LET texts == filterSubtasks(parsed.subtasks.items)
              IN  IF Len(texts) = 0 THEN ParseFailure
                  ELSE [ok |-> TRUE,
                        title |-> partialTitle(parsed.title, task),
                        texts |-> texts]
          ELSE ParseFailure

\* subtaskTexts.map((text, index) => ({task_id, text: text.trim(), checked: false, position: index}))
subtasksToInsertUntrimmed(taskId, texts, firstId) ==
    {SubtaskRow(firstId + i - 1, taskId, texts[i], FALSE, i - 1) : i \in 1..Len(texts)}
subtasksToInsertOneBased(taskId, texts, firstId) ==
    {SubtaskRow(firstId + i - 1, taskId, Trim(texts[i]), FALSE, i) : i \in 1..Len(texts)}
subtasksToInsert(taskId, texts, firstId) ==
    {SubtaskRow(firstId + i - 1, taskId, Trim(texts[i]), FALSE, i - 1) : i \in 1..Len(texts)}

-----------------------------------------------------------------------------
(* Requests *)

Users == {"u1", "u2"}
NoUser == "none"

Call(op, id, res) == [op |-> op, id |-> id, res |-> res]

Idle ==
    [pc |-> "idle", user |-> NoUser, body |-> BadBody, task |-> <<>>,
     content |-> BadText, friendlyTitle |-> <<>>, subtaskTexts |-> <<>>,
     taskId |-> 0, status |-> 0, error |-> "", calls |-> <<>>,
     kind |-> "POST",
     \* path parameters and body of PATCH and DELETE
     paramTaskId |-> 0, paramSubtaskId |-> 0, patch |-> BadPatch, checked |-> FALSE,
     \* the rows of a 2xx response body
     respTasks |-> {}, respSubtasks |-> {}]

Respond(r, status, error) == [r EXCEPT !.pc = "done", !.status = status, !.error = error]

\* the outer catch of POST (route.ts 283-292)
Caught(r) == Respond(r, 500, "Failed to create task. Please try again.")

-----------------------------------------------------------------------------
(* Inputs *)

X(n) == Rep("x", n)
Padded(s) == Pad(MaxPad) \o s \o Pad(MaxPad)

Go == <<"g", "o">>

\* request bodies of POST /api/tasks
PostBodies ==
    { BadBody, Body(Missing), Body(Num), Body(Str(<<>>)),
      Body(Str(Pad(MaxPad))), Body(Str(Padded(Go))),
      Body(Str(X(MaxTaskLen))), Body(Str(X(MaxTaskLen) \o Pad(MaxPad))),
      Body(Str(X(MaxTaskLen + 1))) }

Plain3 == <<Str(<<"a">>), Str(<<"b">>), Str(<<"c">>)>>
Title  == <<"T", "i">>

\* completion texts
Contents ==
    { BadText, Text(JNull), Text(JScalar),
      \* pass full validation
      Text(Obj(Str(Title), Arr(Plain3), FALSE)),
      Text(Obj(Str(X(MaxTitleLen)),
               Arr(<<Str(Padded(<<"a">>)), Str(Pad(MaxPad)), Str(<<"b">>),
                     Str(X(MaxSubtaskLen)), Str(<<"c">>)>>), TRUE)),
      Text(Obj(Str(<<"a", " ">>), Arr(Plain3), FALSE)),
      \* fail full validation, subtasks recoverable
      Text(Obj(Missing, Arr(<<Str(<<"a">>), Num, Str(Pad(MaxPad)), Str(Padded(<<"b">>))>>), FALSE)),
      Text(Obj(Str(<<"a">>), Arr(Plain3), FALSE)),
      Text(Obj(Num, Arr(Plain3 \o Plain3), FALSE)),
      Text(Obj(Str(Padded(X(MaxTitleLen + 1))),
               Arr(<<Str(X(MaxSubtaskLen + 1)), Str(<<"a">>), Str(<<"b">>)>>), FALSE)),
      \* no usable subtask
      Text(Obj(Str(Title), NoArr, FALSE)),
      Text(Obj(Str(Title), NotArr, FALSE)),
      Text(Obj(Str(Title), Arr(<<>>), FALSE)),
      Text(Obj(Str(Title), Arr(<<Str(Pad(MaxPad)), Num>>), FALSE)),
      \* only blank strings, yet of the length and number the schema asks for
      Text(Obj(Str(Title), Arr(Rep(Str(Pad(MaxPad)), MinSubtasks)), FALSE)) }

\* how an external call can end
Outcomes == {"ok", "error", "throw"}

-----------------------------------------------------------------------------
(* POST /api/tasks (route.ts 82-293), one action per await *)

\* a request arrives; supabase.auth.getUser() yields user u or none
PostReceive(u, body) ==
    /\ req.pc \in {"idle", "done"}
    /\ nreq < MaxRequests
    /\ nreq' = nreq + 1
    /\ req' = IF u = NoUser
              THEN Respond([Idle EXCEPT !.body = body], 401, "Unauthorized")
              ELSE [Idle EXCEPT !.pc = "validate", !.user = u, !.body = body]
    /\ UNCHANGED <<tasks, subtasks, nextId, sin, sout, sop, other, ui>>

\* request.json() and createTaskSchema.safeParse(body)
PostValidate ==
    /\ req.pc = "validate"
    /\ req' = IF ~req.body.json THEN Caught(req)
              ELSE LET result == createTaskSchema(req.body)
                   IN  IF ~result.success THEN Respond(req, 400, result.message)
                       ELSE [req EXCEPT !.pc = "generate", !.task = result.task]
    /\ UNCHANGED <<tasks, subtasks, nextId, nreq, sin, sout, sop, other, ui>>

PostGenerateFallsBack(outcome, content) ==
    /\ req.pc = "generate"
    /\ LET r == [req EXCEPT !.calls = Append(@, Call("completion", 0, outcome))]
       IN  req' = CASE outcome = "throw" -> Caught(r)
                    [] outcome = "error" ->
                         [r EXCEPT !.pc = "insertTask", !.friendlyTitle = req.task,
                                   !.subtaskTexts = <<req.task>>]
                    [] OTHER -> [r EXCEPT !.pc = "interpret", !.content = content]
    /\ UNCHANGED <<tasks, subtasks, nextId, nreq, sin, sout, sop, other, ui>>

\* openai.chat.completions.create: throws, returns no content, or returns a text
PostGenerate(outcome, content) ==
    /\ req.pc = "generate"
    /\ LET r == [req EXCEPT !.calls = Append(@, Call("completion", 0, outcome))]
       IN  req' = CASE outcome = "throw" -> Caught(r)
                    [] outcome = "error" -> Respond(r, 500, "Failed to generate task breakdown")
                    [] OTHER -> [r EXCEPT !.pc = "interpret", !.content = content]
    /\ UNCHANGED <<tasks, subtasks, nextId, nreq, sin, sout, sop, other, ui>>

PostInterpretGoesOn ==
    /\ req.pc = "interpret"
    /\ LET i == interpret(req.content, req.task)
       IN  req' = [req EXCEPT !.pc = "insertTask",
                              !.friendlyTitle = IF i.ok THEN i.title ELSE req.task,
                              !.subtaskTexts = i.texts]
    /\ UNCHANGED <<tasks, subtasks, nextId, nreq, sin, sout, sop, other, ui>>

\* JSON.parse, aiTaskResponseSchema.safeParse and the partial parse
PostInterpret ==
    /\ req.pc = "interpret"
    /\ LET i == interpret(req.content, req.task)
       IN  req' = IF ~i.ok THEN Respond(req, 500, "Failed to parse task breakdown")
                  ELSE [req EXCEPT !.pc = "insertTask", !.friendlyTitle = i.title,
                                   !.subtaskTexts = i.texts]
    /\ UNCHANGED <<tasks, subtasks, nextId, nreq, sin, sout, sop, other, ui>>

\* supabase.from("tasks").insert({user_id, title}).select().single()
PostInsertTask(outcome) ==
    /\ req.pc = "insertTask"
    /\ LET id == IF outcome = "ok" THEN nextId ELSE 0
           r  == [req EXCEPT !.calls = Append(@, Call("insertTask", id, outcome))]
       IN  CASE outcome = "ok" ->
                 /\ tasks' = tasks \cup {TaskRow(nextId, req.user, req.friendlyTitle)}
                 /\ nextId' = nextId + 1
                 /\ req' = [r EXCEPT !.pc = "insertSubtasks", !.taskId = nextId]
             [] outcome = "error" ->
                 /\ req' = Respond(r, 500, "Failed to create task")
                 /\ UNCHANGED <<tasks, nextId>>
             [] OTHER ->
                 /\ req' = Caught(r)
                 /\ UNCHANGED <<tasks, nextId>>
    /\ UNCHANGED <<subtasks, nreq, sin, sout, sop, other, ui>>

\* supabase.from("subtasks").insert(subtasksToInsert).select()
PostInsertSubtasks(outcome) ==
    /\ req.pc = "insertSubtasks"
    /\ LET r == [req EXCEPT !.calls = Append(@, Call("insertSubtasks", req.taskId, outcome))]
       IN  CASE outcome = "ok" ->
                 /\ subtasks' = subtasks \cup
                        subtasksToInsert(req.taskId, req.subtaskTexts, nextId)
                 /\ nextId' = nextId + Len(req.subtaskTexts)
                 /\ req' = [Respond(r, 201, "") EXCEPT
                              !.respTasks = {t \in tasks : t.id = req.taskId},
                              !.respSubtasks =
                                  subtasksToInsert(req.taskId, req.subtaskTexts, nextId)]
             [] outcome = "error" ->
                 /\ req' = [r EXCEPT !.pc = "cleanup"]
                 /\ UNCHANGED <<subtasks, nextId>>
             [] OTHER ->
                 /\ req' = Caught(r)
                 /\ UNCHANGED <<subtasks, nextId>>
    /\ UNCHANGED <<tasks, nreq, sin, sout, sop, other, ui>>

\* the id the clean-up deletes
cleanupTargetOther(r) == r.taskId - 1
cleanupTargetLatest(r) ==
    IF tasks = {} THEN r.taskId ELSE CHOOSE i \in TaskIds : \A j \in TaskIds : j <= i
cleanupTarget(r) == r.taskId

\* await supabase.from("tasks").delete().eq("id", taskId); its result is not read
PostCleanup(outcome) ==
    /\ req.pc = "cleanup"
    /\ LET id == cleanupTarget(req)
           r  == [req EXCEPT !.calls = Append(@, Call("delete", id, outcome))]
       IN  /\ tasks' = IF outcome = "ok" THEN DeleteTaskRows(id) ELSE tasks
           /\ subtasks' = IF outcome = "ok" THEN DeleteSubtaskRows(id) ELSE subtasks
           /\ req' = IF outcome = "throw" THEN Caught(r)
                     ELSE Respond(r, 500, "Failed to create subtasks")
    /\ UNCHANGED <<nextId, nreq, sin, sout, sop, other, ui>>

-----------------------------------------------------------------------------
(* Specification of the handlers *)

\* the dashboard page before it is mounted
NoUi == [mounted |-> FALSE]

NoSchema == [kind |-> "none", body |-> BadBody, parsed |-> JNull]
NoResult == [success |-> FALSE, task |-> <<>>, message |-> "", data |-> NoData]

Init ==
    /\ tasks = {}
    /\ subtasks = {}
    /\ nextId = 1
    /\ req = Idle
    /\ nreq = 0
    /\ sin = NoSchema
    /\ sout = NoResult
    /\ sop = "none"
    /\ other = Idle
    /\ ui = NoUi

Next ==
    \/ \E u \in Users \cup {NoUser}, b \in PostBodies : PostReceive(u, b)
    \/ PostValidate
    \/ \E o \in Outcomes, c \in Contents : PostGenerate(o, c)
    \/ PostInterpret
    \/ \E o \in Outcomes : PostInsertTask(o)
    \/ \E o \in Outcomes : PostInsertSubtasks(o)
    \/ \E o \in Outcomes : PostCleanup(o)

Spec == Init /\ [][Next]_vars

-----------------------------------------------------------------------------
(* Specification of the schemas alone: a value is drawn and a schema applied *)

SchemaBodies ==
    { Body(Missing), Body(Num) } \cup
    { Body(Str(Pad(l) \o X(n) \o Pad(t))) :
        l \in 0..MaxPad, t \in 0..MaxPad,
        n \in {0, 1, MaxTaskLen - 1, MaxTaskLen, MaxTaskLen + 1} }

SchemaTitles ==
    { Missing, Num, Str(<<>>), Str(X(MinTitleLen - 1)), Str(X(MinTitleLen)),
      Str(<<"a", " ">>), Str(X(MaxTitleLen)), Str(X(MaxTitleLen + 1)) }

SchemaEntries ==
    { Num, Str(<<>>), Str(Pad(MaxPad)), Str(<<"a">>), Str(Padded(<<"a">>)),
      Str(X(MaxSubtaskLen)), Str(Padded(X(MaxSubtaskLen))), Str(X(MaxSubtaskLen + 1)) }

SchemaArrays ==
    { NoArr, NotArr } \cup
    { Arr(Rep(Str(<<"a">>), n)) : n \in 0..(MaxSubtasks + 1) } \cup
    { Arr(<<Str(<<"a">>), e, Str(<<"b">>)>>) : e \in SchemaEntries }

SchemaParsed ==
    { JNull, JScalar } \cup
    { Obj(t, a, x) : t \in SchemaTitles, a \in SchemaArrays, x \in BOOLEAN }

BodyResult(r) == [NoResult EXCEPT !.success = r.success, !.task = r.task,
                                  !.message = r.message]
DataResult(r) == [NoResult EXCEPT !.success = r.success, !.data = r.data]

SchemaCreateTask ==
    /\ sop = "none" /\ sin.kind = "body"
    /\ sout' = BodyResult(createTaskSchema(sin.body))
    /\ sop' = "createTaskSchema"
    /\ UNCHANGED <<tasks, subtasks, nextId, req, nreq, sin, other, ui>>

SchemaBreakdown ==
    /\ sop = "none" /\ sin.kind = "body"
    /\ sout' = BodyResult(breakdownValidate(sin.body))
    /\ sop' = "breakdown"
    /\ UNCHANGED <<tasks, subtasks, nextId, req, nreq, sin, other, ui>>

SchemaAiResponse ==
    /\ sop = "none" /\ sin.kind = "parsed"
    /\ sout' = DataResult(aiTaskResponseSchema(sin.parsed))
    /\ sop' = "ai"
    /\ UNCHANGED <<tasks, subtasks, nextId, req, nreq, sin, other, ui>>

\* the validated output is validated again
SchemaAiAgain ==
    /\ sop = "ai" /\ sout.success
    /\ sin' = [sin EXCEPT !.parsed = sout.data]
    /\ sout' = DataResult(aiTaskResponseSchema(sout.data))
    /\ sop' = "ai2"
    /\ UNCHANGED <<tasks, subtasks, nextId, req, nreq, other, ui>>

InitSchema ==
    /\ tasks = {}
    /\ subtasks = {}
    /\ nextId = 1
    /\ req = Idle
    /\ nreq = 0
    /\ sin \in { [NoSchema EXCEPT !.kind = "body", !.body = b] : b \in SchemaBodies }
          \cup { [NoSchema EXCEPT !.kind = "parsed", !.parsed = p] : p \in SchemaParsed }
    /\ sout = NoResult
    /\ sop = "none"
    /\ other = Idle
    /\ ui = NoUi

NextSchema ==
    \/ SchemaCreateTask
    \/ SchemaBreakdown
    \/ SchemaAiResponse
    \/ SchemaAiAgain

SpecSchema == InitSchema /\ [][NextSchema]_vars

-----------------------------------------------------------------------------
(* GET /api/tasks, PATCH /api/tasks/[taskId]/subtasks/[subtaskId] and
   DELETE /api/tasks/[taskId] *)

\* the message of an error that a call threw
ThrownMessage == "message of the thrown error"

CaughtLeaks(r) == Respond(r, 500, ThrownMessage)

\* the outer catch of GET, PATCH and DELETE
CaughtInternal(r) == Respond(r, 500, "Internal server error")

Receive(kind, u, r) ==
    /\ req.pc \in {"idle", "done"}
    /\ nreq < MaxRequests
    /\ nreq' = nreq + 1
    /\ req' = IF u = NoUser
              THEN Respond([r EXCEPT !.kind = kind], 401, "Unauthorized")
              ELSE [r EXCEPT !.kind = kind, !.user = u]
    /\ UNCHANGED <<tasks, subtasks, nextId, sin, sout, sop, other, ui>>

\* supabase.auth.getUser() of GET
GetReceive(u) == Receive("GET", u, [Idle EXCEPT !.pc = "getSelect"])

\* the select of the tasks with their subtasks; row level security filters them
GetSelect(outcome) ==
    /\ req.pc = "getSelect"
    /\ LET r  == [req EXCEPT !.calls = Append(@, Call("selectTasks", 0, outcome))]
           ts == SelectTasks(req.user)
       IN  req' = CASE outcome = "throw" -> CaughtInternal(r)
                    [] outcome = "error" -> Respond(r, 500, "Failed to fetch tasks")
                    [] OTHER -> [Respond(r, 200, "") EXCEPT
                                    !.respTasks = ts,
                                    !.respSubtasks = SelectSubtasksOf(req.user, ts)]
    /\ UNCHANGED <<tasks, subtasks, nextId, nreq, sin, sout, sop, other, ui>>

\* supabase.auth.getUser() of PATCH
PatchReceive(u, taskId, subtaskId, body) ==
    Receive("PATCH", u, [Idle EXCEPT !.pc = "patchValidate", !.paramTaskId = taskId,
                                     !.paramSubtaskId = subtaskId, !.patch = body])

\* request.json() and updateSubtaskSchema.safeParse(body)
PatchValidate ==
    /\ req.pc = "patchValidate"
    /\ req' = IF ~req.patch.json THEN CaughtInternal(req)
              ELSE LET result == updateSubtaskSchema(req.patch)
                   IN  IF ~result.success THEN Respond(req, 400, result.message)
                       ELSE [req EXCEPT !.pc = "patchLookup", !.checked = result.checked]
    /\ UNCHANGED <<tasks, subtasks, nextId, nreq, sin, sout, sop, other, ui>>

\* what the handlers do with the row of the ownership lookup
lookupNext(found, r, next) ==
    IF found = {} THEN Respond(r, 404, "Task not found") ELSE [r EXCEPT !.pc = next]

\* the ownership lookup; only its data is read, so an error is a missing row
Lookup(outcome, next) ==
    /\ LET r     == [req EXCEPT !.calls = Append(@, Call("selectTask", req.paramTaskId, outcome))]
           found == IF outcome = "ok" THEN SelectOwnTask(req.user, req.paramTaskId) ELSE {}
       IN  req' = IF outcome = "throw" THEN CaughtInternal(r)
                  ELSE lookupNext(found, r, next)
    /\ UNCHANGED <<tasks, subtasks, nextId, nreq, sin, sout, sop, other, ui>>

PatchLookupGoesOn(outcome) ==
    /\ req.pc = "patchLookup"
    /\ req' = [req EXCEPT !.pc = "patchUpdate",
                          !.calls = Append(@, Call("selectTask", req.paramTaskId, outcome))]
    /\ UNCHANGED <<tasks, subtasks, nextId, nreq, sin, sout, sop, other, ui>>

PatchLookup(outcome) ==
    /\ req.pc = "patchLookup"
    /\ Lookup(outcome, "patchUpdate")

PatchUpdateUpserts(outcome) ==
    /\ req.pc = "patchUpdate"
    /\ LET r       == [req EXCEPT !.calls = Append(@, Call("updateSubtask", req.paramSubtaskId, outcome))]
           matched == UpdateMatched(req.user, req.paramSubtaskId, req.paramTaskId)
           row     == SubtaskRow(req.paramSubtaskId, req.paramTaskId, <<>>, req.checked, 0)
       IN  /\ subtasks' = IF outcome # "ok" THEN subtasks
                          ELSE IF matched = {} THEN subtasks \cup {row}
                          ELSE UpdateChecked(matched, req.checked)
           /\ req' = IF outcome = "ok" THEN Respond(r, 200, "")
                     ELSE Respond(r, 500, "Failed to update subtask")
    /\ UNCHANGED <<tasks, nextId, nreq, sin, sout, sop, other, ui>>

\* the update of the subtask, .select(...).single(): no row matched is an error
PatchUpdate(outcome) ==
    /\ req.pc = "patchUpdate"
    /\ LET r       == [req EXCEPT !.calls = Append(@, Call("updateSubtask", req.paramSubtaskId, outcome))]
           matched == UpdateMatched(req.user, req.paramSubtaskId, req.paramTaskId)
       IN  CASE outcome = "throw" ->
                 /\ req' = CaughtInternal(r)
                 /\ UNCHANGED subtasks
             [] outcome = "error" \/ Cardinality(matched) # 1 ->
                 /\ req' = Respond(r, 500, "Failed to update subtask")
                 /\ UNCHANGED subtasks
             [] OTHER ->
                 /\ subtasks' = UpdateChecked(matched, req.checked)
                 /\ req' = [Respond(r, 200, "") EXCEPT
                              !.respSubtasks = {[s EXCEPT !.checked = req.checked] : s \in matched}]
    /\ UNCHANGED <<tasks, nextId, nreq, sin, sout, sop, other, ui>>

DeleteReceiveNoAuth(u, taskId) ==
    /\ req.pc \in {"idle", "done"}
    /\ nreq < MaxRequests
    /\ nreq' = nreq + 1
    /\ req' = [Idle EXCEPT !.kind = "DELETE", !.pc = "deleteLookup", !.user = u,
                           !.paramTaskId = taskId]
    /\ UNCHANGED <<tasks, subtasks, nextId, sin, sout, sop, other, ui>>

\* supabase.auth.getUser() of DELETE
DeleteReceive(u, taskId) ==
    Receive("DELETE", u, [Idle EXCEPT !.pc = "deleteLookup", !.paramTaskId = taskId])

DeleteLookup(outcome) ==
    /\ req.pc = "deleteLookup"
    /\ Lookup(outcome, "deleteExec")

\* the delete of the task; its subtasks go with it
DeleteExec(outcome) ==
    /\ req.pc = "deleteExec"
    /\ LET r    == [req EXCEPT !.calls = Append(@, Call("deleteTask", req.paramTaskId, outcome))]
           gone == DeleteMatched(req.user, req.paramTaskId)
       IN  CASE outcome = "throw" ->
                 /\ req' = CaughtInternal(r)
                 /\ UNCHANGED <<tasks, subtasks>>
             [] outcome = "error" ->
                 /\ req' = Respond(r, 500, "Failed to delete task")
                 /\ UNCHANGED <<tasks, subtasks>>
             [] OTHER ->
                 /\ tasks' = tasks \ gone
                 /\ subtasks' = IF gone = {} THEN subtasks
                                ELSE DeleteSubtaskRows(req.paramTaskId)
                 /\ req' = Respond(r, 200, "")
    /\ UNCHANGED <<nextId, nreq, sin, sout, sop, other, ui>>

\* the inputs of the four handlers together
ApiBodies ==
    { BadBody, Body(Missing), Body(Str(Pad(MaxPad))), Body(Str(Padded(Go))) }

ApiContents ==
    { BadText,
      Text(Obj(Str(Title), Arr(Plain3), FALSE)),
      Text(Obj(Missing, Arr(<<Str(<<"a">>), Num, Str(Padded(<<"b">>)), Str(<<"c">>)>>), FALSE)) }

PatchBodies ==
    { BadPatch, Patch(PMissing), Patch(PStr), Patch(PBool(TRUE)), Patch(PBool(FALSE)) }

\* an id no row has
NoId == 0

PathTaskIds == TaskIds \cup {NoId}
PathSubtaskIds == {s.id : s \in subtasks} \cup {NoId}

NextApi ==
    \/ \E u \in Users \cup {NoUser}, b \in ApiBodies : PostReceive(u, b)
    \/ PostValidate
    \/ \E o \in Outcomes, c \in ApiContents : PostGenerate(o, c)
    \/ PostInterpret
    \/ \E o \in Outcomes : PostInsertTask(o)
    \/ \E o \in Outcomes : PostInsertSubtasks(o)
    \/ \E o \in Outcomes : PostCleanup(o)
    \/ \E u \in Users \cup {NoUser} : GetReceive(u)
    \/ \E o \in Outcomes : GetSelect(o)
    \/ \E u \in Users \cup {NoUser}, t \in PathTaskIds, s \in PathSubtaskIds, b \in PatchBodies :
          PatchReceive(u, t, s, b)
    \/ PatchValidate
    \/ \E o \in Outcomes : PatchLookup(o)
    \/ \E o \in Outcomes : PatchUpdate(o)
    \/ \E u \in Users \cup {NoUser}, t \in PathTaskIds : DeleteReceive(u, t)
    \/ \E o \in Outcomes : DeleteLookup(o)
    \/ \E o \in Outcomes : DeleteExec(o)

SpecApi == Init /\ [][NextApi]_vars

\* a step of the handler of the request in progress
HandlerStep == NextApi /\ nreq' = nreq

\* every awaited call returns or throws, so a handler in progress goes on
SpecApiLive == SpecApi /\ WF_vars(HandlerStep)

-----------------------------------------------------------------------------
(* Requests in parallel: two requests are in progress at a time, each in its
   own invocation of its handler; they share nothing but the store *)

\* the other request is scheduled: the two change places
Switch ==
    /\ req # other
    /\ req' = other
    /\ other' = req
    /\ UNCHANGED <<tasks, subtasks, nextId, nreq, sin, sout, sop, ui>>

RaceBodies == { Body(Str(Go)), Body(Str(<<"g">>)) }

RaceContents ==
    { Text(Obj(Str(Title), Arr(Plain3), FALSE)),
      Text(Obj(Missing, Arr(<<Str(<<"a">>), Num, Str(Padded(<<"b">>)), Str(<<"c">>)>>), FALSE)) }

\* POST /api/tasks and GET /api/tasks in parallel
NextRace ==
    \/ \E u \in Users, b \in RaceBodies : PostReceive(u, b)
    \/ PostValidate
    \/ \E o \in Outcomes, c \in RaceContents : PostGenerate(o, c)
    \/ PostInterpret
    \/ \E o \in Outcomes : PostInsertTask(o)
    \/ \E o \in Outcomes : PostInsertSubtasks(o)
    \/ \E o \in Outcomes : PostCleanup(o)
    \/ \E u \in Users : GetReceive(u)
    \/ \E o \in Outcomes : GetSelect(o)
    \/ Switch

SpecRace == Init /\ [][NextRace]_vars

-----------------------------------------------------------------------------
(* PATCH and DELETE in parallel, on a store that holds two tasks of user u1
   as POST /api/tasks creates them *)

StoredTexts == <<<<"a">>, <<"b">>, <<"c">>>>

StoredTasks == { TaskRow(1, "u1", Title), TaskRow(5, "u1", Go) }

StoredSubtasks ==
    subtasksToInsert(1, StoredTexts, 2) \cup subtasksToInsert(5, StoredTexts, 6)

InitStored ==
    /\ tasks = StoredTasks
    /\ subtasks = StoredSubtasks
    /\ nextId = 9
    /\ req = Idle
    /\ nreq = 0
    /\ sin = NoSchema
    /\ sout = NoResult
    /\ sop = "none"
    /\ other = Idle
    /\ ui = NoUi

ToggleBodies == { Patch(PBool(TRUE)), Patch(PBool(FALSE)) }

\* the second subtask of each task, or an id no row has
TogglePathIds == {s.id : s \in {x \in subtasks : x.position = 1}} \cup {NoId}

NextStored ==
    \/ \E u \in Users, t \in PathTaskIds, s \in TogglePathIds, b \in ToggleBodies :
          PatchReceive(u, t, s, b)
    \/ PatchValidate
    \/ \E o \in Outcomes : PatchLookup(o)
    \/ \E o \in Outcomes : PatchUpdate(o)
    \/ \E u \in Users, t \in PathTaskIds : DeleteReceive(u, t)
    \/ \E o \in Outcomes : DeleteLookup(o)
    \/ \E o \in Outcomes : DeleteExec(o)
    \/ Switch

SpecStored == InitStored /\ [][NextStored]_vars

-----------------------------------------------------------------------------
(* The dashboard page and its task cards in the browser. The server is what
   answers a fetch: ok, not ok (with or without an error in the body), or the
   fetch or its json() throws. *)

NoError == "null"

\* a task of the local list; title, texts and dates play no part
UiSubtask(id, position) == [id |-> id, checked |-> FALSE, position |-> position]
UiTask(id) == [id |-> id, subtasks |-> <<UiSubtask(id + 1, 0), UiSubtask(id + 2, 1)>>]

\* what GET /api/tasks answers with, and the task a POST answers with
ServerList == <<UiTask(5), UiTask(1)>>
CreatedTask(n) == UiTask(10 * n)

Fetch(n, kind, taskId, subtaskId, checked) ==
    [n |-> n, kind |-> kind, taskId |-> taskId, subtaskId |-> subtaskId, checked |-> checked]

NoFetch == Fetch(0, "none", NoId, NoId, FALSE)

\* the page once mounted: useEffect has called fetchTasks
Mounted ==
    [mounted |-> TRUE, loading |-> TRUE, list |-> <<>>, error |-> NoError,
     creating |-> FALSE, newTask |-> <<>>,
     \* per task card: togglingSubtask and isDeleting
     toggling |-> <<>>, deleting |-> <<>>,
     \* the fetches in flight, how many were made, the last one settled
     calls |-> {Fetch(1, "GET", NoId, NoId, FALSE)}, ncalls |-> 1,
     settled |-> NoFetch, outcome |-> "none"]

ListIds(list) == {list[i].id : i \in 1..Len(list)}

\* the cards of a new list: a card that stays keeps its state
Cards(list, old, init) ==
    [t \in ListIds(list) |-> IF t \in DOMAIN old THEN old[t] ELSE init]

WithList(u, list) ==
    [u EXCEPT !.list = list,
              !.toggling = Cards(list, u.toggling, NoId),
              !.deleting = Cards(list, u.deleting, FALSE)]

\* a state setter of a card does nothing once the card is unmounted
SetToggling(u, t, v) ==
    IF t \in DOMAIN u.toggling THEN [u EXCEPT !.toggling[t] = v] ELSE u
SetDeleting(u, t, v) ==
    IF t \in DOMAIN u.deleting THEN [u EXCEPT !.deleting[t] = v] ELSE u

Settle(u, c, outcome) ==
    [u EXCEPT !.calls = @ \ {c}, !.settled = c, !.outcome = outcome]

\* not ok with no error in the body matters to handleCreateTask alone
FetchOutcomes == {"ok", "notok", "notokNoBody", "throw"}
ReplyOutcomes == {"ok", "notok", "throw"}

\* data.error || fallback, or the message of what was thrown
ErrorMessage(outcome, fallback) ==
    CASE outcome = "notok" -> "error of the response"
      [] outcome = "notokNoBody" -> fallback
      [] OTHER -> ThrownMessage

UiUnchanged == UNCHANGED <<tasks, subtasks, nextId, req, nreq, sin, sout, sop, other>>

\* fetchTasks settles
UiFetchTasks(c, outcome) ==
    /\ ui.mounted /\ c \in ui.calls /\ c.kind = "GET"
    /\ LET u == Settle(ui, c, outcome)
           v == IF outcome = "ok" THEN WithList(u, ServerList)
                ELSE [u EXCEPT !.error = "Failed to load tasks"]
       IN  ui' = [v EXCEPT !.loading = FALSE]
    /\ UiUnchanged

\* onChange of the input
UiType(text) ==
    /\ ui.mounted /\ ~ui.creating
    /\ ui.newTask # text
    /\ ui' = [ui EXCEPT !.newTask = text]
    /\ UiUnchanged

\* the Dismiss button
UiDismiss ==
    /\ ui.mounted /\ ui.error # NoError
    /\ ui' = [ui EXCEPT !.error = NoError]
    /\ UiUnchanged

TaskAt(list, id) == CHOOSE i \in 1..Len(list) : list[i].id = id

\* prev.map(...) of handleSubtaskToggle
SetChecked(list, taskId, subtaskId, checked) ==
    [i \in 1..Len(list) |->
        IF list[i].id = taskId
        THEN [list[i] EXCEPT !.subtasks =
                 [j \in 1..Len(@) |-> IF @[j].id = subtaskId
                                      THEN [@[j] EXCEPT !.checked = checked] ELSE @[j]]]
        ELSE list[i]]

\* prev.filter((t) => t.id !== taskId) of handleDeleteTask
Without(list, taskId) == SelectSeq(list, LAMBDA t : t.id # taskId)

NewFetch(u, kind, taskId, subtaskId, checked) ==
    [u EXCEPT !.ncalls = @ + 1,
              !.calls = @ \cup {Fetch(u.ncalls + 1, kind, taskId, subtaskId, checked)}]

\* the form is submitted: handleCreateTask up to its fetch
UiSubmit ==
    /\ ui.mounted /\ ui.ncalls < MaxCalls
    /\ ~(Trim(ui.newTask) = <<>> \/ ui.creating)
    /\ ui' = NewFetch([ui EXCEPT !.creating = TRUE, !.error = NoError],
                      "POST", NoId, NoId, FALSE)
    /\ UiUnchanged

\* handleCreateTask from the response on
UiCreateSettles(c, outcome) ==
    /\ ui.mounted /\ c \in ui.calls /\ c.kind = "POST"
    /\ LET u == Settle(ui, c, outcome)
           v == IF outcome = "ok"
                THEN [WithList(u, <<CreatedTask(c.n)>> \o u.list) EXCEPT !.newTask = <<>>]
                ELSE [u EXCEPT !.error = ErrorMessage(outcome, "Failed to create task")]
       IN  ui' = [v EXCEPT !.creating = FALSE]
    /\ UiUnchanged

\* a click on subtask j of the card of task t: handleToggle of the card and
\* handleSubtaskToggle of the page up to its fetch
UiClickSubtask(t, j) ==
    /\ ui.mounted /\ ~ui.loading /\ ui.ncalls < MaxCalls
    /\ t \in DOMAIN ui.toggling
    /\ LET task == ui.list[TaskAt(ui.list, t)]
       IN  /\ j \in 1..Len(task.subtasks)
           \* pointer-events-none while togglingSubtask === subtask.id
           /\ ui.toggling[t] # task.subtasks[j].id
           /\ ui' = NewFetch(SetToggling(ui, t, task.subtasks[j].id), "PATCH", t,
                             task.subtasks[j].id, ~task.subtasks[j].checked)
    /\ UiUnchanged

UiToggleSettlesOptimistic(c, outcome) ==
    /\ ui.mounted /\ c \in ui.calls /\ c.kind = "PATCH"
    /\ LET u == Settle(ui, c, outcome)
           v == [u EXCEPT !.list = SetChecked(@, c.taskId, c.subtaskId, c.checked),
                          !.error = IF outcome = "ok" THEN @ ELSE "Failed to update subtask"]
       IN  ui' = SetToggling(v, c.taskId, NoId)
    /\ UiUnchanged

\* handleSubtaskToggle from the response on, then the finally of handleToggle
UiToggleSettles(c, outcome) ==
    /\ ui.mounted /\ c \in ui.calls /\ c.kind = "PATCH"
    /\ LET u == Settle(ui, c, outcome)
           v == IF outcome = "ok"
                THEN [u EXCEPT !.list = SetChecked(@, c.taskId, c.subtaskId, c.checked)]
                ELSE [u EXCEPT !.error = "Failed to update subtask"]
       IN  ui' = SetToggling(v, c.taskId, NoId)
    /\ UiUnchanged

\* a click on the delete button of the card of task t, confirmed or not:
\* handleDelete of the card and handleDeleteTask of the page up to its fetch
UiClickDelete(t, confirmed) ==
    /\ ui.mounted /\ ~ui.loading /\ ui.ncalls < MaxCalls
    /\ t \in DOMAIN ui.deleting
    /\ ~ui.deleting[t]
    /\ confirmed
    /\ ui' = NewFetch(SetDeleting(ui, t, TRUE), "DELETE", t, NoId, FALSE)
    /\ UiUnchanged

\* handleDeleteTask from the response on, then the finally of handleDelete
UiDeleteSettles(c, outcome) ==
    /\ ui.mounted /\ c \in ui.calls /\ c.kind = "DELETE"
    /\ LET u == Settle(ui, c, outcome)
           v == IF outcome = "ok" THEN WithList(u, Without(u.list, c.taskId))
                ELSE [u EXCEPT !.error = "Failed to delete task"]
       IN  ui' = SetDeleting(v, c.taskId, FALSE)
    /\ UiUnchanged

Typed == { Pad(MaxPad), Go }

InitClient ==
    /\ tasks = {}
    /\ subtasks = {}
    /\ nextId = 1
    /\ req = Idle
    /\ nreq = 0
    /\ sin = NoSchema
    /\ sout = NoResult
    /\ sop = "none"
    /\ other = Idle
    /\ ui = Mounted

NextClient ==
    \/ \E c \in ui.calls, o \in ReplyOutcomes : UiFetchTasks(c, o)
    \/ \E text \in Typed : UiType(text)
    \/ UiDismiss
    \/ UiSubmit
    \/ \E c \in ui.calls, o \in FetchOutcomes : UiCreateSettles(c, o)
    \/ \E t \in DOMAIN ui.toggling, j \in 1..2 : UiClickSubtask(t, j)
    \/ \E c \in ui.calls, o \in ReplyOutcomes : UiToggleSettles(c, o)
    \/ \E t \in DOMAIN ui.deleting, confirmed \in BOOLEAN : UiClickDelete(t, confirmed)
    \/ \E c \in ui.calls, o \in ReplyOutcomes : UiDeleteSettles(c, o)

SpecClient == InitClient /\ [][NextClient]_vars

-----------------------------------------------------------------------------
(* POST /api/breakdown: no user, no store *)

\* a completion text whose JSON value is an array
JArr(items) == [kind |-> "arr", title |-> Missing, subtasks |-> Arr(items), extra |-> FALSE]

\* the outer catch of the breakdown route
CaughtBreakdown(r) == Respond(r, 500, "Failed to break down task. Please try again.")

breakdownFilterKeepAll(items) == [i \in 1..Len(items) |-> items[i].s]

\* subtasks.filter((s) => typeof s === "string" && s.trim().length > 0)
breakdownFilter(items) ==
    LET kept == SelectSeq(items, LAMBDA e : e.t = "str" /\ Len(Trim(e.s)) > 0)
    IN  [i \in 1..Len(kept) |-> kept[i].s]

BreakdownReceive(body) ==
    /\ req.pc \in {"idle", "done"}
    /\ nreq < MaxRequests
    /\ nreq' = nreq + 1
    /\ req' = [Idle EXCEPT !.kind = "BREAKDOWN", !.pc = "breakdownValidate", !.body = body]
    /\ UNCHANGED <<tasks, subtasks, nextId, sin, sout, sop, other, ui>>

\* request.json() and the inline checks of the task
BreakdownValidate ==
    /\ req.pc = "breakdownValidate"
    /\ req' = IF ~req.body.json THEN CaughtBreakdown(req)
              ELSE LET result == breakdownValidate(req.body)
                   IN  IF ~result.success THEN Respond(req, 400, result.message)
                       ELSE [req EXCEPT !.pc = "breakdownGenerate", !.task = result.task]
    /\ UNCHANGED <<tasks, subtasks, nextId, nreq, sin, sout, sop, other, ui>>

\* openai.chat.completions.create: throws, returns no content, or returns a text
BreakdownGenerate(outcome, content) ==
    /\ req.pc = "breakdownGenerate"
    /\ LET r == [req EXCEPT !.calls = Append(@, Call("completion", 0, outcome))]
       IN  req' = CASE outcome = "throw" -> CaughtBreakdown(r)
                    [] outcome = "error" -> Respond(r, 500, "Failed to generate subtasks")
                    [] OTHER -> [r EXCEPT !.pc = "breakdownParse", !.content = content]
    /\ UNCHANGED <<tasks, subtasks, nextId, nreq, sin, sout, sop, other, ui>>

\* JSON.parse(content), Array.isArray, the filter, and the response
BreakdownParse ==
    /\ req.pc = "breakdownParse"
    /\ LET parsed == req.content.val
           isList == req.content.json /\ parsed.kind = "arr"
                        /\ Len(parsed.subtasks.items) > 0
           texts  == IF isList THEN breakdownFilter(parsed.subtasks.items) ELSE <<>>
       IN  req' = IF ~isList \/ Len(texts) = 0
                  THEN Respond(req, 500, "Failed to parse subtasks")
                  ELSE [Respond(req, 200, "") EXCEPT !.subtaskTexts = texts]
    /\ UNCHANGED <<tasks, subtasks, nextId, nreq, sin, sout, sop, other, ui>>

BreakdownContents ==
    { BadText, Text(JNull), Text(JScalar),
      Text(Obj(Str(Title), Arr(Plain3), FALSE)),
      Text(JArr(<<>>)),
      Text(JArr(<<Num, Str(<<>>), Str(Pad(MaxPad))>>)),
      Text(JArr(Plain3)),
      Text(JArr(<<Str(<<"c">>), Num, Str(Padded(<<"b">>)), Str(Pad(MaxPad)), Str(<<"a">>)>>)),
      Text(JArr(<<Str(X(MaxSubtaskLen + 1))>>)) }

NextBreakdown ==
    \/ \E b \in PostBodies : BreakdownReceive(b)
    \/ BreakdownValidate
    \/ \E o \in Outcomes, c \in BreakdownContents : BreakdownGenerate(o, c)
    \/ BreakdownParse

SpecBreakdown == Init /\ [][NextBreakdown]_vars

-----------------------------------------------------------------------------
(* Claims *)

InRange(n, lo, hi) == lo <= n /\ n <= hi

\* C4: a string task input is rejected when its trimmed length is 0 or above
\* 200, and accepted as exactly its trimmed string when the trimmed length is
\* in 1..200, by createTaskSchema and by the checks of POST /api/breakdown.
C4_TaskInputByTrimmedLength ==
    (sop \in {"createTaskSchema", "breakdown"} /\ sin.body.task.t = "str") =>
        LET trimmed == Trim(sin.body.task.s)
        IN  IF InRange(Len(trimmed), 1, 200)
            THEN sout.success /\ sout.task = trimmed
            ELSE ~sout.success

\* what C5 says aiTaskResponseSchema accepts
C5_Acceptable(p) ==
    /\ p.kind = "obj"
    /\ p.title.t = "str" /\ InRange(Len(p.title.s), 2, 50)
    /\ p.subtasks.t = "arr" /\ InRange(Len(p.subtasks.items), 3, 5)
    /\ \A i \in 1..Len(p.subtasks.items) :
          /\ p.subtasks.items[i].t = "str"
          /\ InRange(Len(p.subtasks.items[i].s), 1, 100)

\* C5 (as amended): aiTaskResponseSchema accepts an object exactly when title
\* is a string of length 2..50 and subtasks an array of 3..5 strings of length
\* 1..100; the validated output has the input's title and subtasks (keys other
\* than these two are dropped), and validating the output again accepts it
\* and returns it unchanged.
C5_AiSchemaAcceptsAndKeeps ==
    /\ sop = "ai" =>
          /\ sout.success <=> C5_Acceptable(sin.parsed)
          /\ sout.success =>
                /\ sout.data.title = sin.parsed.title
                /\ sout.data.subtasks = sin.parsed.subtasks
    /\ sop = "ai2" => sout.success /\ sout.data = sin.parsed

\* C5 as stated: on acceptance the validated output equals the input.
C5_OutputEqualsInput ==
    (sop = "ai" /\ sout.success) => sout.data = sin.parsed

\* an accepted response with 5 subtasks and a 50-character title, validated twice
C5_Witness ==
    /\ sop = "ai2" /\ sout.success
    /\ Len(sout.data.title.s) = 50
    /\ \E i \in 1..Len(sout.data.subtasks.items) :
          Len(sout.data.subtasks.items[i].s) = 100

\* C6: full validation measures each subtask entry after trimming: an object
\* with a valid title and 3..5 subtask strings is accepted exactly when every
\* entry has trimmed length 1..100 (a whitespace-only entry is rejected).
C6_EntriesMeasuredTrimmed ==
    ( /\ sop = "ai" /\ sin.parsed.kind = "obj"
      /\ sin.parsed.title.t = "str" /\ InRange(Len(sin.parsed.title.s), 2, 50)
      /\ sin.parsed.subtasks.t = "arr"
      /\ InRange(Len(sin.parsed.subtasks.items), 3, 5)
      /\ \A i \in 1..Len(sin.parsed.subtasks.items) :
            sin.parsed.subtasks.items[i].t = "str" ) =>
        ( sout.success <=>
            \A i \in 1..Len(sin.parsed.subtasks.items) :
                InRange(Len(Trim(sin.parsed.subtasks.items[i].s)), 1, 100) )

-----------------------------------------------------------------------------
(* Claims about POST /api/tasks *)

Responded == req.pc = "done" /\ req.user # NoUser

CallsOf(op) == {i \in 1..Len(req.calls) : req.calls[i].op = op}

\* the rows of task id hold exactly texts, in this order, at positions 0..n-1
StoredAs(id, texts) ==
    /\ Cardinality(SubtasksOf(id)) = Len(texts)
    /\ \A i \in 1..Len(texts) :
          \E s \in SubtasksOf(id) : s.position = i - 1 /\ s.text = texts[i]

TitleOf(id) == (CHOOSE t \in tasks : t.id = id).title

\* C1: once POST /tasks has responded, a response other than 201 leaves no
\* task row and no subtask row of that request in the store, and a 201 leaves
\* the task row and all of its subtask rows.
C1_CreateIsAtomic ==
    Responded =>
        IF req.status = 201
        THEN /\ req.taskId \in TaskIds
             /\ Cardinality(SubtasksOf(req.taskId)) = Len(req.subtaskTexts)
        ELSE req.taskId = 0 \/ (req.taskId \notin TaskIds /\ SubtasksOf(req.taskId) = {})

\* C2: a task created by a POST /tasks that responded 201 has 3..5 subtask rows.
C2_ThreeToFiveSubtasks ==
    (Responded /\ req.status = 201) =>
        InRange(Cardinality(SubtasksOf(req.taskId)), 3, 5)

SubtaskInsertFailed ==
    \E i \in CallsOf("insertSubtasks") : req.calls[i].res = "error"

\* C3: when the subtask batch insert returned an error after the task insert
\* succeeded, the handler has issued, after it and before responding, exactly
\* one delete, of the id the task insert returned, and responds 500 with an
\* error string.
C3_CleanupDeletesOwnTask ==
    (Responded /\ SubtaskInsertFailed) =>
        /\ req.status = 500 /\ req.error # ""
        /\ Cardinality(CallsOf("delete")) = 1
        /\ \A d \in CallsOf("delete") :
              /\ \E i \in CallsOf("insertTask") :
                    /\ req.calls[i].res = "ok"
                    /\ req.calls[i].id = req.calls[d].id
              /\ \A i \in CallsOf("insertSubtasks") : i < d
              /\ d = Len(req.calls)

\* the clean-up ran while a task of an earlier request was stored, and left it
C3_Witness ==
    /\ Responded /\ SubtaskInsertFailed
    /\ \E d \in CallsOf("delete") : req.calls[d].res = "ok"
    /\ req.taskId \notin TaskIds
    /\ tasks # {}

\* C7: every stored subtask row has a text of 1..100 characters.
C7_SubtaskTextLength ==
    \A s \in subtasks : InRange(Len(s.text), 1, 100)

\* C8: every stored task row has a title of 1..200 characters.
C8_TaskTitleLength ==
    \A t \in tasks : InRange(Len(t.title), 1, 200)

FullyValid == req.content.json /\ aiTaskResponseSchema(req.content.val).success

EntryTexts(items) == [i \in 1..Len(items) |-> items[i].s]
TrimmedTexts(texts) == [i \in 1..Len(texts) |-> Trim(texts[i])]

\* C9 (as amended): when the completion text passes full validation, the task
\* is created with exactly that title and with the subtask texts each trimmed
\* of surrounding whitespace, in the same order and the same number.
C9_FullValidationStoredTrimmed ==
    (Responded /\ req.status = 201 /\ FullyValid) =>
        /\ TitleOf(req.taskId) = req.content.val.title.s
        /\ StoredAs(req.taskId,
                    TrimmedTexts(EntryTexts(req.content.val.subtasks.items)))

\* C9 as stated: the task is created with exactly those subtask texts.
C9_FullValidationStoredVerbatim ==
    (Responded /\ req.status = 201 /\ FullyValid) =>
        /\ TitleOf(req.taskId) = req.content.val.title.s
        /\ StoredAs(req.taskId, EntryTexts(req.content.val.subtasks.items))

\* a fully valid response with a padded entry was stored
C9_Witness ==
    /\ Responded /\ req.status = 201 /\ FullyValid
    /\ \E i \in 1..Len(req.content.val.subtasks.items) :
          LET e == req.content.val.subtasks.items[i].s
          IN  Trim(e) # e /\ Trim(e) # <<>>

NonBlankString(e) == e.t = "str" /\ Trim(e.s) # <<>>

\* the case of C10: JSON whose subtasks is an array with a non-blank string
\* and whose title is missing, not a string or shorter than 2 when trimmed
C10_Case ==
    /\ req.content.json /\ req.content.val.kind = "obj"
    /\ req.content.val.subtasks.t = "arr"
    /\ \E i \in 1..Len(req.content.val.subtasks.items) :
          NonBlankString(req.content.val.subtasks.items[i])
    /\ \/ req.content.val.title.t # "str"
       \/ Len(Trim(req.content.val.title.s)) < 2

-----------------------------------------------------------------------------
(* Claims about the title, the failures and the order of calls of POST /api/tasks *)

\* the request's task row is stored
TaskStored == req.kind = "POST" /\ req.taskId # 0 /\ req.taskId \in TaskIds

\* the partial parse takes the title from the response
AiTitleSalvaged ==
    /\ req.content.json /\ req.content.val.kind = "obj"
    /\ ~FullyValid
    /\ req.content.val.title.t = "str"
    /\ Len(Trim(req.content.val.title.s)) >= 2

FirstChars(s, n) == [i \in 1..(IF Len(s) < n THEN Len(s) ELSE n) |-> s[i]]

CompletionReturned ==
    req.kind = "POST" /\ Len(req.calls) >= 1 /\ req.calls[1] = Call("completion", 0, "ok")

\* the completion text is not JSON, or has no usable subtask: subtasks is
\* missing, not an array, empty, or holds no string with non-blank text
C12_Case ==
    \/ ~req.content.json
    \/ req.content.val.kind # "obj"
    \/ req.content.val.subtasks.t # "arr"
    \/ \A i \in 1..Len(req.content.val.subtasks.items) :
          ~NonBlankString(req.content.val.subtasks.items[i])

\* C12: in that case POST /tasks responds 500 with the parse-failure error
\* and has made no store call (no task insert, no subtask insert, no delete).
C12_ParseFailureWritesNothing ==
    (Responded /\ CompletionReturned /\ C12_Case) =>
        /\ req.status = 500
        /\ req.error = "Failed to parse task breakdown"
        /\ Len(req.calls) = 1


\* the completion call returned no content (no choice, or an empty or null text)
NoContent ==
    req.kind = "POST" /\ Len(req.calls) >= 1 /\ req.calls[1] = Call("completion", 0, "error")

\* C13: when the completion service returns no content, POST /tasks responds
\* 500 and has made no store call, so no task row of the request exists.
C13_NoContentWritesNothing ==
    (Responded /\ NoContent) =>
        /\ req.status = 500
        /\ Len(req.calls) = 1
        /\ req.taskId = 0

\* answered so while a task of an earlier request is stored
C13_Witness ==
    /\ Responded /\ NoContent /\ req.status = 500
    /\ tasks # {}


CallOps == [i \in 1..Len(req.calls) |-> req.calls[i].op]

Positions(id) == {s.position : s \in SubtasksOf(id)}

Created == req.kind = "POST" /\ req.pc = "done" /\ req.status = 201

\* C14: in every store state the subtasks of each task have the positions
\* 0..n-1, each once; a created task's subtasks stand in the order of the
\* interpreter's texts, and every one of them is created with checked = false.
C14_PositionsContiguousUnchecked ==
    /\ \A t \in tasks :
          LET n == Cardinality(SubtasksOf(t.id))
          IN  /\ Positions(t.id) = 0..(n - 1)
              /\ Cardinality(Positions(t.id)) = n
    /\ Created =>
          /\ StoredAs(req.taskId, TrimmedTexts(req.subtaskTexts))
          /\ \A s \in SubtasksOf(req.taskId) : ~s.checked

\* a second task was created from the partial parse, after a first one
C14_Witness ==
    /\ Created
    /\ Cardinality(tasks) = 2
    /\ req.subtaskTexts = <<<<"a">>, Padded(<<"b">>), <<"c">>>>
    /\ \E s \in SubtasksOf(req.taskId) : s.position = 2 /\ s.text = <<"c">>

\* the body fails validation: not JSON, the field missing or of the wrong
\* type, the task text out of bounds, checked not a boolean
InvalidBody ==
    \/ /\ req.kind = "POST"
       /\ \/ ~req.body.json
          \/ req.body.task.t # "str"
          \/ ~InRange(Len(Trim(req.body.task.s)), 1, MaxTaskLen)
    \/ /\ req.kind = "PATCH"
       /\ \/ ~req.patch.json
          \/ req.patch.checked.t # "bool"

\* C16: an authenticated POST /tasks or PATCH of a subtask whose body fails
\* validation is answered with 400 and an error string, and has made no
\* completion call and no store call.
C16_InvalidBodyIs400 ==
    (Responded /\ InvalidBody) =>
        /\ req.status = 400
        /\ req.error # ""
        /\ req.calls = <<>>

\* request r names a task that does not exist or that another user owns
NotOwned(r) == ~\E t \in tasks : t.id = r.paramTaskId /\ t.user_id = r.user

\* this step answers a PATCH or a DELETE
Answers == req' # req /\ req'.pc = "done" /\ req'.kind \in {"PATCH", "DELETE"}

ValidPatch(r) == r.kind = "PATCH" => r.patch.json /\ r.patch.checked.t = "bool"

LookupThrew(r) == \E i \in 1..Len(r.calls) : r.calls[i] = Call("selectTask", r.paramTaskId, "throw")

\* C17 as stated: every PATCH or DELETE naming a task that does not exist or
\* is owned by a different user is answered with 404 and changes no row.
C17_MissingOrForeignIs404 ==
    [][(Answers /\ NotOwned(req')) =>
          /\ req'.status = 404
          /\ UNCHANGED <<tasks, subtasks>>]_vars

\* C17: a PATCH or DELETE naming a task that does not exist or is owned by a
\* different user changes no task row and no subtask row; it is answered
\* with 404 when the caller is authenticated, the body of a PATCH is valid
\* and the ownership lookup does not throw.
C17_MissingOrForeignChangesNothing ==
    [][(Answers /\ NotOwned(req')) =>
          /\ UNCHANGED <<tasks, subtasks>>
          /\ (req'.user # NoUser /\ ValidPatch(req') /\ ~LookupThrew(req')) =>
                /\ req'.status = 404
                /\ req'.error = "Task not found"]_vars

\* user u2 was answered 404 for a PATCH on a subtask of a task of u1, which
\* is still stored unchecked
C17_Witness ==
    /\ req.pc = "done" /\ req.kind = "PATCH" /\ req.status = 404
    /\ req.user = "u2" /\ req.patch = Patch(PBool(TRUE))
    /\ \E t \in tasks : t.id = req.paramTaskId /\ t.user_id = "u1"
    /\ \E s \in subtasks :
          s.id = req.paramSubtaskId /\ s.task_id = req.paramTaskId /\ ~s.checked

\* the subtask belongs to a task of user u, before or after the step
SubtaskOwnedBy(s, u, ts) == \E t \in ts : t.id = s.task_id /\ t.user_id = u

\* C18: no response to a user holds a task or a subtask of another user (GET
\* returns only the caller's tasks), and no step of a user's request changes
\* or deletes a task or a subtask of another user.
C18_UsersIsolated ==
    [][/\ req'.pc = "done" =>
             /\ \A t \in req'.respTasks : t.user_id = req'.user
             /\ \A s \in req'.respSubtasks : SubtaskOwnedBy(s, req'.user, tasks \cup tasks')
       /\ \A t \in tasks : t.user_id # req'.user => t \in tasks'
       /\ \A s \in subtasks : ~SubtaskOwnedBy(s, req'.user, tasks) => s \in subtasks']_vars

\* user u2 listed the tasks and got none, while a task of u1 is stored
C18_Witness ==
    /\ req.pc = "done" /\ req.kind = "GET" /\ req.status = 200
    /\ req.user = "u2" /\ req.respTasks = {}
    /\ \E t \in tasks : t.user_id = "u1" /\ SubtasksOf(t.id) # {}

\* the request was answered and the authentication provider gave no user
Unauthenticated == req.pc = "done" /\ req.user = NoUser

\* C19: a GET, POST, PATCH or DELETE for which the authentication provider
\* yields no user is answered with 401 whatever its body and path parameters
\* are, and has made no store read, no store write and no completion call.
C19_NoUserIs401 ==
    Unauthenticated =>
        /\ req.status = 401
        /\ req.error = "Unauthorized"
        /\ req.calls = <<>>
        /\ req.respTasks = {} /\ req.respSubtasks = {}

\* an unauthenticated DELETE that names a stored task, which is still there
C19_Witness ==
    /\ Unauthenticated /\ req.kind = "DELETE" /\ req.status = 401
    /\ \E t \in tasks : t.id = req.paramTaskId /\ SubtasksOf(t.id) # {}

\* this step answers a PATCH with 200
PatchSucceeds == req.pc = "patchUpdate" /\ req'.pc = "done" /\ req'.status = 200

\* C20: a successful PATCH of subtask S of task T sets the checked field of
\* S to the requested value and changes nothing else: the text and position
\* of S, every sibling of S, every subtask of another task and every task
\* row are as before.
C20_PatchChangesOnlyChecked ==
    [][PatchSucceeds =>
          /\ tasks' = tasks
          /\ \E S \in subtasks :
                /\ S.id = req.paramSubtaskId /\ S.task_id = req.paramTaskId
                /\ subtasks' = (subtasks \ {S}) \cup {[S EXCEPT !.checked = req.checked]}
                /\ req'.respSubtasks = {[S EXCEPT !.checked = req.checked]}]_vars

\* the second subtask of a task was checked and its siblings are unchecked
C20_Witness ==
    /\ req.pc = "done" /\ req.kind = "PATCH" /\ req.status = 200
    /\ \E S \in SubtasksOf(req.paramTaskId) :
          /\ S.id = req.paramSubtaskId /\ S.checked /\ S.position = 1
          /\ \A s \in SubtasksOf(req.paramTaskId) \ {S} : ~s.checked
    /\ Cardinality(SubtasksOf(req.paramTaskId)) >= MinSubtasks

Deleted == req.kind = "DELETE" /\ req.pc = "done" /\ req.status = 200

\* C21: after a DELETE that responded 200 neither the task row nor a subtask
\* row with that task id exists, and in every store state reached by create,
\* toggle and delete requests every subtask row's task row exists.
C21_DeleteLeavesNoOrphans ==
    /\ Deleted =>
          /\ req.paramTaskId \notin TaskIds
          /\ SubtasksOf(req.paramTaskId) = {}
    /\ \A s \in subtasks : s.task_id \in TaskIds

\* the deleted task had been created with its subtasks
C21_Witness ==
    /\ Deleted
    /\ req.paramTaskId = 1
    /\ nextId > 1 + MinSubtasks
    /\ tasks = {} /\ subtasks = {}

\* the row but for its checked field
Unchecked(s) == [s EXCEPT !.checked = FALSE]

\* C24: over POST, GET, PATCH and DELETE requests a task row that stays keeps
\* its title and owner, and a subtask row that stays keeps its text, position
\* and task: checked is the only field of an existing row that changes.
C24_OnlyCheckedChanges ==
    [][/\ \A t \in tasks : \A t2 \in tasks' : t2.id = t.id => t2 = t
       /\ \A s \in subtasks : \A s2 \in subtasks' :
             s2.id = s.id => Unchecked(s2) = Unchecked(s)]_vars

\* a subtask with padded text at position 1, checked by a PATCH
C24_Witness ==
    /\ req.pc = "done" /\ req.kind = "PATCH" /\ req.status = 200 /\ req.checked
    /\ \E s \in subtasks :
          /\ s.id = req.paramSubtaskId /\ s.checked
          /\ s.position = 1 /\ s.text = <<"b">>
          /\ TitleOf(s.task_id) = Go

\* the messages the handlers answer with, and those of the two body schemas
HandlerMessages ==
    { "Unauthorized", "Task not found", "Internal server error",
      "Failed to fetch tasks", "Failed to update subtask", "Failed to delete task",
      "Failed to generate task breakdown", "Failed to parse task breakdown",
      "Failed to create task", "Failed to create subtasks",
      "Failed to create task. Please try again." }

ValidationMessages ==
    { "Required", "Expected string", "Expected boolean", "Task is required",
      "Task must be 200 characters or less" }

InProgress == req.pc \notin {"idle", "done"}

\* C25: every GET, POST, PATCH and DELETE ends with exactly one response
\* whatever call returns an error or throws: a request in progress is
\* answered, and an answered request is not answered again. A response
\* that is not 2xx carries one of the handlers' fixed messages or the
\* validation message, never the message of a thrown error.
C25_OneResponseFixedMessage ==
    /\ [](req.pc = "done" =>
            /\ req.status \in {200, 201, 400, 401, 404, 500}
            /\ req.status \in {200, 201} => req.error = ""
            /\ req.status \notin {200, 201} =>
                  /\ req.error \in HandlerMessages \cup ValidationMessages
                  /\ req.error # ThrownMessage)
    /\ [][req.pc = "done" => nreq' = nreq + 1]_vars
    /\ (InProgress ~> req.pc = "done")

\* the update of a PATCH threw and the request was answered by the catch
C25_Witness ==
    /\ req.pc = "done" /\ req.kind = "PATCH"
    /\ Len(req.calls) = 2 /\ req.calls[2].res = "throw"
    /\ req.status = 500 /\ req.error = "Internal server error"

\* the texts, positions and checked flags of the subtasks of task id
Shape(id) == {[text |-> s.text, position |-> s.position, checked |-> s.checked] :
                 s \in SubtasksOf(id)}

ShapeOf(texts) == {[text |-> Trim(texts[i]), position |-> i - 1, checked |-> FALSE] :
                      i \in 1..Len(texts)}

\* a step of the POST in req, the other request standing still
PostStep == req'.kind = "POST" /\ req' # req /\ other' = other

\* C23: with two POST /tasks in parallel, by one user or by two, a request
\* answered 201 has created a task row of its own, owned by its requester,
\* whose subtasks are those derived from its own completion response at
\* positions 0..n-1; and no step of a request, its compensating delete
\* included, removes or alters a row of a task that is not its own.
C23_ParallelCreatesIndependent ==
    /\ [](Created =>
            /\ TaskRow(req.taskId, req.user, req.friendlyTitle) \in tasks
            /\ req.subtaskTexts = interpret(req.content, req.task).texts
            /\ Shape(req.taskId) = ShapeOf(req.subtaskTexts)
            /\ Cardinality(SubtasksOf(req.taskId)) = Len(req.subtaskTexts)
            /\ other.kind = "POST" => other.taskId # req.taskId)
    /\ [][PostStep =>
            /\ \A t \in tasks : t.id # req'.taskId => t \in tasks'
            /\ \A s \in subtasks : s.task_id # req'.taskId => s \in subtasks']_vars

\* two POSTs of two users were in progress together: one was answered 201
\* after the other, which had inserted its task first, failed and cleaned up
C23_Witness ==
    /\ Created /\ req.user = "u2"
    /\ other.kind = "POST" /\ other.pc = "done" /\ other.user = "u1"
    /\ other.taskId = 1 /\ req.taskId = 2
    /\ Len(other.calls) = 4 /\ other.calls[4] = Call("delete", 1, "ok")
    /\ req.content # other.content
    /\ TaskIds = {2}

\* user u listed the tasks while the other request, a POST of u, is between
\* the insert of its task and its response
ListedDuringCreate ==
    /\ req.kind = "GET" /\ req.pc = "done" /\ req.status = 200
    /\ other.kind = "POST" /\ other.user = req.user
    /\ other.pc \in {"insertSubtasks", "cleanup"}

\* C26: a GET /tasks by the owner while a POST /tasks is in progress never
\* returns a task with no subtask: the new task row is not to be seen
\* between its insert and the insert of its subtasks, nor between a failed
\* subtask insert and the compensating delete.
C26_NoEmptyTaskListed ==
    ListedDuringCreate =>
        \A t \in req.respTasks : \E s \in req.respSubtasks : s.task_id = t.id

\* task t of the stored ones is intact: its row and its subtasks with their
\* texts and positions
Intact(t) ==
    /\ t \in tasks
    /\ {Unchecked(s) : s \in SubtasksOf(t.id)} =
          {Unchecked(s) : s \in {x \in StoredSubtasks : x.task_id = t.id}}

Gone(id) == id \notin TaskIds /\ SubtasksOf(id) = {}

\* C22: however the steps of a PATCH of a subtask and of a DELETE of its task
\* by the owner interleave, the task is either gone with all its subtasks or
\* intact with all its subtasks at their positions and with their texts, it
\* is gone when the DELETE responded 200, and no subtask is without its task.
C22_ToggleDeleteRace ==
    /\ \A t \in StoredTasks : Intact(t) \/ Gone(t.id)
    /\ Deleted => Gone(req.paramTaskId)
    /\ \A s \in subtasks : s.task_id \in TaskIds

\* the owner's PATCH found its task, the DELETE removed the task before the
\* update ran, and the update matched no row
C22_Witness ==
    /\ req.kind = "PATCH" /\ req.pc = "done" /\ req.user = "u1"
    /\ req.paramTaskId = 1 /\ req.paramSubtaskId = 3
    /\ req.calls = <<Call("selectTask", 1, "ok"), Call("updateSubtask", 3, "ok")>>
    /\ req.status = 500
    /\ other.kind = "DELETE" /\ other.pc = "done" /\ other.status = 200
    /\ other.user = "u1" /\ other.paramTaskId = 1
    /\ Gone(1)

\* the update of a PATCH runs on a task its caller owns, and the subtask id
\* names no subtask of that task
UpdateOfNoSubtask ==
    /\ req.pc = "patchUpdate" /\ req'.pc = "done" /\ other' = other
    /\ \E t \in tasks : t.id = req.paramTaskId /\ t.user_id = req.user
    /\ ~\E s \in subtasks : s.id = req.paramSubtaskId /\ s.task_id = req.paramTaskId

\* C27: an authenticated PATCH on a task the caller owns, with a valid body
\* and a subtask id that names no subtask of that task (absent, or of
\* another task), is answered with 500 and changes no row, the subtask with
\* that id under another task included.
C27_NoSuchSubtaskIs500 ==
    [][UpdateOfNoSubtask =>
          /\ req'.status = 500
          /\ req'.error \in {"Failed to update subtask", "Internal server error"}
          /\ UNCHANGED <<tasks, subtasks>>]_vars

\* u1 named task 1 with a subtask of task 5, both its own: answered 500 and
\* the subtask is unchecked as before
C27_Witness ==
    /\ req.kind = "PATCH" /\ req.pc = "done" /\ req.user = "u1"
    /\ req.paramTaskId = 1 /\ req.paramSubtaskId = 7 /\ req.checked
    /\ req.calls = <<Call("selectTask", 1, "ok"), Call("updateSubtask", 7, "ok")>>
    /\ req.status = 500 /\ req.error = "Failed to update subtask"
    /\ tasks = StoredTasks /\ subtasks = StoredSubtasks

Toggles == {c \in ui.calls : c.kind = "PATCH"}

\* C28: in a task card, while the toggle request of a subtask is in flight
\* the subtask is not clickable, so at most one toggle request per subtask is
\* in flight, also when another subtask of the task is toggled meanwhile and
\* however the requests settle.
C28_OneToggleInFlight ==
    ui.mounted =>
        /\ \A c \in Toggles :
              c.taskId \in DOMAIN ui.toggling => ui.toggling[c.taskId] = c.subtaskId
        /\ \A c, d \in Toggles : c.subtaskId = d.subtaskId => c = d

\* this step is the settling of a fetch of the page
SettledNow == ui.mounted /\ ui.calls \ ui'.calls # {}

\* the list after the PATCH c: only the checked flag of its subtask differs
ToggledIn(old, new, c) ==
    /\ Len(new) = Len(old)
    /\ \A i \in 1..Len(old) :
          /\ new[i].id = old[i].id
          /\ Len(new[i].subtasks) = Len(old[i].subtasks)
          /\ \A j \in 1..Len(old[i].subtasks) :
                new[i].subtasks[j] =
                    IF old[i].id = c.taskId /\ old[i].subtasks[j].id = c.subtaskId
                    THEN [old[i].subtasks[j] EXCEPT !.checked = c.checked]
                    ELSE old[i].subtasks[j]

\* the list after the DELETE c: the other tasks, as they were and in order
RemovedFrom(old, new, c) ==
    /\ ListIds(new) = ListIds(old) \ {c.taskId}
    /\ Len(new) = Cardinality(ListIds(new))
    /\ \A i \in 1..Len(new) : new[i] = old[TaskAt(old, new[i].id)]
    /\ \A i, j \in 1..Len(new) :
          i < j => TaskAt(old, new[i].id) < TaskAt(old, new[j].id)

\* C29: the local task list changes only when a fetch settles with an ok
\* response: a PATCH then sets the checked flag of its subtask to the
\* requested value and nothing else, a DELETE removes its task, a POST
\* prepends the created task. When a response is not ok or the fetch
\* throws, the list is unchanged and an error message is set.
C29_ListFollowsOkResponses ==
    [][/\ (ui.mounted /\ ui'.list # ui.list) =>
             /\ SettledNow /\ ui'.outcome = "ok"
             /\ ui'.settled.kind = "PATCH" => ToggledIn(ui.list, ui'.list, ui'.settled)
             /\ ui'.settled.kind = "DELETE" => RemovedFrom(ui.list, ui'.list, ui'.settled)
             /\ ui'.settled.kind = "POST" =>
                   ui'.list = <<CreatedTask(ui'.settled.n)>> \o ui.list
       /\ (SettledNow /\ ui'.outcome # "ok") =>
             /\ ui'.list = ui.list
             /\ ui'.error # NoError]_vars

\* a PATCH was answered not ok after another one had checked the first
\* subtask of the task: the list shows only that one checked, and an error
C29_Witness ==
    /\ ui.mounted /\ ui.settled.kind = "PATCH" /\ ui.outcome = "notok"
    /\ ui.settled.taskId = 1 /\ ui.settled.subtaskId = 3 /\ ui.settled.checked
    /\ ui.error = "Failed to update subtask"
    /\ Len(ui.list) = 2
    /\ LET task == ui.list[TaskAt(ui.list, 1)]
       IN  task.subtasks[1].checked /\ ~task.subtasks[2].checked

\* the indices of the elements of the completion's array that are strings
\* with non-empty trimmed text
KeptIndices(items) == {i \in 1..Len(items) : NonBlankString(items[i])}

\* the k-th of them
KeptAt(items, k) ==
    CHOOSE i \in KeptIndices(items) :
        Cardinality({j \in KeptIndices(items) : j < i}) = k - 1

BreakdownDone == req.kind = "BREAKDOWN" /\ req.pc = "done"

\* the completion returned nothing to break the task down with
NothingUsable ==
    /\ Len(req.calls) = 1 /\ req.calls[1].res # "throw"
    /\ \/ req.calls[1].res = "error"
       \/ ~req.content.json
       \/ req.content.val.kind # "arr"
       \/ KeptIndices(req.content.val.subtasks.items) = {}

\* C30: POST /api/breakdown responds 200 only with a non-empty subtasks array
\* whose elements are the strings with non-empty trimmed text of the
\* completion's array, in its order; it responds 500 when the content is
\* empty, not JSON, not an array, an empty array or holds no such string; it
\* never reads the user identity nor touches the store.
C30_BreakdownAnswers ==
    BreakdownDone =>
        /\ req.status = 200 =>
              LET items == req.content.val.subtasks.items
                  texts == req.subtaskTexts
              IN  /\ req.content.json /\ req.content.val.kind = "arr"
                  /\ Len(texts) > 0
                  /\ Len(texts) = Cardinality(KeptIndices(items))
                  /\ \A k \in 1..Len(texts) :
                        texts[k] = items[KeptAt(items, k)].s /\ Trim(texts[k]) # <<>>
        /\ NothingUsable => req.status = 500
        /\ req.user = NoUser
        /\ \A i \in 1..Len(req.calls) : req.calls[i].op = "completion"
        /\ tasks = {} /\ subtasks = {} /\ nextId = 1

\* three strings kept out of five elements, in the completion's order
C30_Witness ==
    /\ BreakdownDone /\ req.status = 200
    /\ Len(req.content.val.subtasks.items) = 5
    /\ req.subtaskTexts = << <<"c">>, Padded(<<"b">>), <<"a">> >>

====
